---------------------------- MODULE Spec2Model ----------------------------
(***************************************************************************)
(* Subscription lifecycle of the Telegram payment bot.                     *)
(*                                                                         *)
(* The committed store (tables users, chats, subscriptions of models.py)   *)
(* is shared by the update handlers of handlers.py, each running in its    *)
(* own AsyncSession, and by the scheduled job process_expired_             *)
(* subscriptions.  Time is counted in days.  Every store access may raise  *)
(* SQLAlchemyError and every outward send may raise; the number of such    *)
(* failures in one behaviour is bounded by MaxFaults.                      *)
(*                                                                         *)
(* Spec is the user handlers and the expiry sweep over one chat; SpecChats *)
(* is the admin's chat creation, toggle and removal beside the creation of *)
(* subscriptions; SpecJobs is the two scheduled jobs over batches of       *)
(* several records; SpecCreate is create_subscription over the arguments   *)
(* it accepts; SpecRepository is the repository functions called one by    *)
(* one; SpecMain is main() of main.py, which is what would schedule the    *)
(* jobs, and SpecSweepScheduled the sweep run as a working cron job would  *)
(* run it; SpecOverlap is two runs of the sweep that overlap; SpecSelect   *)
(* is select_chat_callback beside the removal of chats.                    *)
(*                                                                         *)
(* Not modelled: the display fields of User (username, first_name,         *)
(* last_name), the price and wallet fields of Chat, payment_details, the   *)
(* texts of the messages (only their category is kept).                    *)
(***************************************************************************)
EXTENDS Integers, Sequences, FiniteSets, TLC

VARIABLES
    users,      \* table users: row id -> [telegram_id]
    chats,      \* table chats: row id -> [telegram_chat_id, is_active]
    subs,       \* table subscriptions: row id -> Subscription row
    clock,      \* datetime.utcnow(), in days
    h,          \* handler sessions: locals of a select_chat / my_subscriptions run
    reply,      \* what the most recently finished handler answered
    sweep,      \* locals of process_expired_subscriptions
    notices,    \* per subscription: sends made by the two jobs
    faults,     \* store / send failures so far
    remind,     \* locals of send_renewal_reminders
    chats_id_seq, \* the sequence of chats.id: the last id it gave out
    main_pc,    \* where main() of main.py stands
    runs        \* locals of two runs of process_expired_subscriptions that overlap

vars == <<users, chats, subs, clock, h, reply, sweep, notices, faults, remind,
          chats_id_seq, main_pc, runs>>

---------------------------------------------------------------------------
(* Bounds of the model *)

MaxTime == 1
MaxSubs == 3
MaxFaults == 1
MaxReminders == 2
MaxChats == 3

(* Program constants *)

duration_days == 30
REMINDER_DAYS_AHEAD == 3

TgIds == {1, 2}
ChatArgs == {1, 2}
Sessions == {1, 2}
\* payment_id is nullable: the value that stands for NULL.
NULL == 0
Statuses == {"pending_payment", "active", "expired", "cancelled"}

SubArgs == 1..MaxSubs

\* The chat row ids and the telegram chat ids an admin may name.
ChatRowArgs == 1..MaxChats
TelegramChatArgs == {100, 200, 300}

---------------------------------------------------------------------------
(* models.py *)

\* users.telegram_id declared without unique=True.
UserTelegramIdNotUnique(us, tg) == FALSE

\* The unique constraint of users.telegram_id: would a row for tg violate it?
UserTelegramIdTaken(us, tg) == \E id \in DOMAIN us : us[id].telegram_id = tg

\* subscriptions.payment_id declared without unique=True.
PaymentIdNotUnique(ss, ref) == FALSE

\* The unique constraint of subscriptions.payment_id (NULLs never collide).
PaymentIdTaken(ss, ref) == ref # NULL /\ \E id \in DOMAIN ss : ss[id].payment_id = ref

\* subscriptions.user_id and subscriptions.chat_id declared without ForeignKey.
ForeignKeysUnchecked(us, cs, row) == TRUE

\* The foreign keys of subscriptions.user_id and subscriptions.chat_id.
ForeignKeysHold(us, cs, row) == row.user_id \in DOMAIN us /\ row.chat_id \in DOMAIN cs

\* subscriptions.chat_id declared without the foreign key and NOT NULL.
ChatReferenceUnchecked(ss, c) == FALSE

\* subscriptions.chat_id, a foreign key that is NOT NULL: a chat row that a
\* subscription references cannot be deleted (the flush of the delete either
\* sets the children's chat_id to NULL or leaves them pointing at no row; the
\* store raises IntegrityError for both).
ChatReferenced(ss, c) == \E id \in DOMAIN ss : ss[id].chat_id = c

---------------------------------------------------------------------------
(* db_utils.py *)

\* select(User).filter(User.telegram_id == telegram_id); scalar_one_or_none():
\* the row id, or 0 for None.
get_user_by_telegram_id_select(us, tg) ==
    IF \E id \in DOMAIN us : us[id].telegram_id = tg
    THEN CHOOSE id \in DOMAIN us : us[id].telegram_id = tg
    ELSE 0

\* User(telegram_id=telegram_id); session.add(user); session.commit()
get_user_by_telegram_id_insert(us, tg) == Append(us, [telegram_id |-> tg])

\* end_date set to start_date: the timedelta of line 42 left out.
create_subscription_without_duration(user_id, chat_id, days, status, payment_id, now) ==
    [user_id |-> user_id, chat_id |-> chat_id,
     start_date |-> now, end_date |-> now,
     status |-> status, payment_id |-> payment_id]

\* Lines 41-52: the Subscription row added to the session.
create_subscription(user_id, chat_id, days, status, payment_id, now) ==
    [user_id |-> user_id, chat_id |-> chat_id,
     start_date |-> now, end_date |-> now + days,
     status |-> status, payment_id |-> payment_id]

\* The query without .join(User) and the filter on User.telegram_id.
get_active_subscriptions_of_any_user(us, ss, tg, now) ==
    {id \in DOMAIN ss : ss[id].status = "active" /\ ss[id].end_date > now}

\* The filter of line 76 written end_date >= now.
get_active_subscriptions_through_now(us, ss, tg, now) ==
    {id \in DOMAIN ss :
        /\ ss[id].user_id \in DOMAIN us
        /\ us[ss[id].user_id].telegram_id = tg
        /\ ss[id].status = "active"
        /\ ss[id].end_date >= now}

\* Lines 72-78: subscriptions joined to their user row, filtered on the
\* user's telegram_id, the status and the end_date.
get_active_subscriptions(us, ss, tg, now) ==
    {id \in DOMAIN ss :
        /\ ss[id].user_id \in DOMAIN us
        /\ us[ss[id].user_id].telegram_id = tg
        /\ ss[id].status = "active"
        /\ ss[id].end_date > now}

\* The filter without Subscription.end_date <= target_date.
get_subscriptions_ending_soon_without_target(ss, days_ahead, now) ==
    {id \in DOMAIN ss : ss[id].status = "active" /\ ss[id].end_date > now}

get_subscriptions_ending_soon(ss, days_ahead, now) ==
    {id \in DOMAIN ss :
        /\ ss[id].status = "active"
        /\ ss[id].end_date > now
        /\ ss[id].end_date <= now + days_ahead}

\* The filter without Subscription.status == 'active'.
get_expired_subscriptions_of_any_status(ss, now) ==
    {id \in DOMAIN ss : ss[id].end_date <= now}

\* The filter written end_date < now.
get_expired_subscriptions_strict(ss, now) ==
    {id \in DOMAIN ss : ss[id].status = "active" /\ ss[id].end_date < now}

get_expired_subscriptions(ss, now) ==
    {id \in DOMAIN ss : ss[id].status = "active" /\ ss[id].end_date <= now}

\* Line 136 with the payment reference cleared as well.
update_subscription_status_clearing_payment(ss, id, new_status) ==
    IF id \in DOMAIN ss
    THEN [ss EXCEPT ![id].status = new_status, ![id].payment_id = NULL]
    ELSE ss

\* The assignment subscription.status = new_status left out.
update_subscription_status_unassigned(ss, id, new_status) == ss

\* The rows after subscription.status = new_status; an id with no row changes
\* nothing (the function returns None).
update_subscription_status(ss, id, new_status) ==
    IF id \in DOMAIN ss THEN [ss EXCEPT ![id].status = new_status] ELSE ss

get_chat_by_id(cs, id) == id \in DOMAIN cs

get_subscription_by_id(ss, id) == id \in DOMAIN ss

\* create_chat without the SELECT of lines 221-224 and with telegram_chat_id
\* not unique: a row is added whatever is stored.
create_chat_always_adds(cs, seq, telegram_chat_id, is_active) ==
    [id \in DOMAIN cs \cup {seq + 1} |->
        IF id = seq + 1
        THEN [telegram_chat_id |-> telegram_chat_id, is_active |-> is_active]
        ELSE cs[id]]

\* create_chat, lines 220-247: the chat with this telegram_chat_id is updated
\* if there is one, else a new row is added; its id is the next of the
\* sequence seq.
create_chat(cs, seq, telegram_chat_id, is_active) ==
    IF \E id \in DOMAIN cs : cs[id].telegram_chat_id = telegram_chat_id
    THEN LET existing_chat == CHOOSE id \in DOMAIN cs : cs[id].telegram_chat_id = telegram_chat_id
         IN  [cs EXCEPT ![existing_chat].is_active = is_active]
    ELSE [id \in DOMAIN cs \cup {seq + 1} |->
            IF id = seq + 1
            THEN [telegram_chat_id |-> telegram_chat_id, is_active |-> is_active]
            ELSE cs[id]]

\* update_chat_details(session, chat_id, is_active=...): the rows after the
\* setattr of line 271; an id with no row changes nothing.
update_chat_details(cs, id, is_active) ==
    IF id \in DOMAIN cs THEN [cs EXCEPT ![id].is_active = is_active] ELSE cs

\* session.delete(chat): the rows without the chat.
delete_chat_by_id(cs, id) == [i \in DOMAIN cs \ {id} |-> cs[i]]

---------------------------------------------------------------------------
(* State *)

IdleSession == [pc |-> "idle", op |-> "none", tg |-> 0, chat |-> 0]

IdleSweep == [pc |-> "idle", now |-> 0, expired_subs |-> {}, todo |-> {},
              result |-> "none"]

NoNotice == [expired |-> 0, removed |-> 0, reminder |-> 0]

\* sent: the reminders attempted by the run, as <<subscription, chat_id the
\* message was addressed to>>.
IdleRemind == [pc |-> "idle", subscriptions_ending_soon |-> {}, todo |-> {},
               failed |-> {}, sent |-> {}]

\* Two runs of process_expired_subscriptions, each with a session of its own.
\* notified: the subscriptions whose user got both messages of lines 457-463
\* from the run.
Runs == {1, 2}

IdleRun == [pc |-> "idle", expired_subs |-> {}, todo |-> {}, notified |-> {},
            result |-> "none"]

\* The store the process starts over: main() only creates missing tables, the
\* rows of earlier runs are kept.  One known user, one chat, and two
\* subscriptions of that user made by create_subscription 30 and 29 days ago:
\* the older one in any status, the younger one active.
Init ==
    /\ users = <<[telegram_id |-> 1]>>
    /\ chats = <<[telegram_chat_id |-> 100, is_active |-> TRUE]>>
    /\ \E s1 \in Statuses :
          subs = << create_subscription(1, 1, duration_days, s1, 1, 0 - duration_days),
                    create_subscription(1, 1, duration_days, "active", NULL, 1 - duration_days) >>
    /\ clock = 0
    /\ h = [p \in Sessions |-> IdleSession]
    /\ reply = "none"
    /\ sweep = IdleSweep
    /\ notices = [id \in SubArgs |-> NoNotice]
    /\ faults = 0
    /\ remind = IdleRemind
    /\ chats_id_seq = Len(chats)
    /\ main_pc = "start"
    /\ runs = [r \in Runs |-> IdleRun]

\* The outcomes a failure-prone step may take: "ok", or one of the failures.
Outcomes(failures) == IF faults < MaxFaults THEN {"ok"} \cup failures ELSE {"ok"}

Fault(f) == faults' = IF f = "ok" THEN faults ELSE faults + 1

---------------------------------------------------------------------------
(* Time *)

Tick ==
    /\ clock < MaxTime
    /\ clock' = clock + 1
    /\ UNCHANGED <<users, chats, subs, h, reply, sweep, notices, faults, remind, chats_id_seq, main_pc, runs>>

---------------------------------------------------------------------------
(* handlers.py: select_chat_callback, user_my_subscriptions_callback *)

\* Line 172: ten hex digits of a fresh uuid4.  The value is either one that no
\* row holds (all such values behave alike: the next row id stands for them)
\* or one that a stored row already holds.
payment_reference(ss) ==
    {Len(ss) + 1} \cup {ss[id].payment_id : id \in {i \in DOMAIN ss : ss[i].payment_id # NULL}}

\* Lines 171-188 storing one row for each (user, chat): the new row takes the
\* place of the user's earlier row for the chat.
select_chat_create_replacing(us, cs, ss, uid, c, ref, f, now) ==
    LET row == create_subscription(uid, c, duration_days, "pending_payment", ref, now)
        violation == PaymentIdTaken(ss, ref) \/ ~ForeignKeysHold(us, cs, row)
        earlier == {id \in DOMAIN ss : ss[id].user_id = uid /\ ss[id].chat_id = c}
        stored == IF earlier = {} THEN Append(ss, row)
                  ELSE [ss EXCEPT ![CHOOSE id \in earlier : TRUE] = row]
    IN  IF violation \/ f = "commit"
        THEN [rows |-> ss, text |-> "db_error"]
        ELSE IF f = "after_commit"
        THEN [rows |-> stored, text |-> "db_error"]
        ELSE [rows |-> stored, text |-> "payment_info"]

\* Lines 171-188 calling create_subscription with status 'active': the row is
\* committed as paid for.
select_chat_create_active(us, cs, ss, uid, c, ref, f, now) ==
    LET row == create_subscription(uid, c, duration_days, "active", ref, now)
        violation == PaymentIdTaken(ss, ref) \/ ~ForeignKeysHold(us, cs, row)
    IN  IF violation \/ f = "commit"
        THEN [rows |-> ss, text |-> "db_error"]
        ELSE IF f = "after_commit"
        THEN [rows |-> Append(ss, row), text |-> "db_error"]
        ELSE [rows |-> Append(ss, row), text |-> "payment_info"]

\* Lines 171-213 for the resolved user uid: create_subscription with the
\* reference ref, the handler's commit (f = "commit": it raises; a constraint
\* violation raises too), and the refresh of line 190 (f = "after_commit": it
\* raises).  The rows then stored, and the text the user gets.
select_chat_create(us, cs, ss, uid, c, ref, f, now) ==
    LET row == create_subscription(uid, c, duration_days, "pending_payment", ref, now)
        violation == PaymentIdTaken(ss, ref) \/ ~ForeignKeysHold(us, cs, row)
    IN  IF violation \/ f = "commit"
        THEN [rows |-> ss, text |-> "db_error"]
        ELSE IF f = "after_commit"
        THEN [rows |-> Append(ss, row), text |-> "db_error"]
        ELSE [rows |-> Append(ss, row), text |-> "payment_info"]

\* The commits of one select_chat_callback run, told from what it stored: the
\* user row is stored by the commit inside get_user_by_telegram_id (line 151,
\* db_utils.py line 25), the subscription row by the commit of line 188.
select_chat_commits(us, us_after, ss, ss_after) ==
    (IF us_after # us THEN 1 ELSE 0) + (IF ss_after # ss THEN 1 ELSE 0)

\* Lines 320-327: which text the subscriptions list gets.
my_subscriptions_text(us, ss, tg, now) ==
    IF get_active_subscriptions(us, ss, tg, now) = {} THEN "no_active" ELSE "listed"

\* A handler run suspended between the SELECT and the INSERT of
\* get_user_by_telegram_id.  Sessions are interchangeable: the run takes the
\* first free one.
FreeSession == CHOOSE p \in Sessions : h[p].pc = "idle" /\ \A q \in Sessions : h[q].pc = "idle" => p <= q

Waiting(op, tg, c) ==
    [h EXCEPT ![FreeSession] = [pc |-> "user_insert", op |-> op, tg |-> tg, chat |-> c]]

SelectsWaiting == Cardinality({q \in Sessions : h[q].op = "select_chat"})

\* Lines 143-213 with line 151 before line 145: the caller is resolved, and
\* created when unknown, before the chat is looked up.
select_chat_callback_user_first(tg, c) ==
    /\ Len(subs) + SelectsWaiting < MaxSubs
    /\ LET uid == get_user_by_telegram_id_select(users, tg) IN
       IF uid = 0
       THEN \E f \in Outcomes({"store"}) :
              /\ \E p \in Sessions : h[p].pc = "idle"
              /\ Fault(f)
              /\ reply' = IF f = "store" THEN "db_error" ELSE reply
              /\ h' = IF f = "store" THEN h ELSE Waiting("select_chat", tg, c)
              /\ subs' = subs
       ELSE IF ~get_chat_by_id(chats, c)
       THEN \E f \in Outcomes({"store"}) :
              /\ Fault(f)
              /\ reply' = IF f = "store" THEN "db_error" ELSE "chat_not_found"
              /\ UNCHANGED <<h, subs>>
       ELSE \E ref \in payment_reference(subs),
               f \in Outcomes({"store", "commit", "after_commit"}) :
              LET done == select_chat_create(users, chats, subs, uid, c, ref, f, clock) IN
              /\ Fault(f)
              /\ reply' = IF f = "store" THEN "db_error" ELSE done.text
              /\ subs' = IF f = "store" THEN subs ELSE done.rows
              /\ h' = h
    /\ UNCHANGED <<users, chats, clock, sweep, notices, remind, chats_id_seq, main_pc, runs>>

\* Lines 143-213.  With the chat found and the user row present the handler
\* runs to its end; with no user row it goes on in get_user_by_telegram_id.
\*   f = "store": get_chat_by_id or the SELECT of the user raises.
select_chat_callback(tg, c) ==
    /\ Len(subs) + SelectsWaiting < MaxSubs
    /\ LET uid == get_user_by_telegram_id_select(users, tg) IN
       IF ~get_chat_by_id(chats, c)
       THEN \E f \in Outcomes({"store"}) :
              /\ Fault(f)
              /\ reply' = IF f = "store" THEN "db_error" ELSE "chat_not_found"
              /\ UNCHANGED <<h, subs>>
       ELSE IF uid = 0
       THEN \E f \in Outcomes({"store"}) :
              /\ \E p \in Sessions : h[p].pc = "idle"
              /\ Fault(f)
              /\ reply' = IF f = "store" THEN "db_error" ELSE reply
              /\ h' = IF f = "store" THEN h ELSE Waiting("select_chat", tg, c)
              /\ subs' = subs
       ELSE \E ref \in payment_reference(subs),
               f \in Outcomes({"store", "commit", "after_commit"}) :
              LET done == select_chat_create(users, chats, subs, uid, c, ref, f, clock) IN
              /\ Fault(f)
              /\ reply' = IF f = "store" THEN "db_error" ELSE done.text
              /\ subs' = IF f = "store" THEN subs ELSE done.rows
              /\ h' = h
    /\ UNCHANGED <<users, chats, clock, sweep, notices, remind, chats_id_seq, main_pc, runs>>

\* Lines 309-336.
user_my_subscriptions_callback(tg) ==
    /\ LET uid == get_user_by_telegram_id_select(users, tg) IN
       \E f \in Outcomes({"store"}) :
        /\ uid = 0 => \E p \in Sessions : h[p].pc = "idle"
        /\ Fault(f)
        /\ reply' = IF f = "store" THEN "db_error"
                    ELSE IF uid = 0 THEN reply
                    ELSE my_subscriptions_text(users, subs, tg, clock)
        /\ h' = IF f = "ok" /\ uid = 0 THEN Waiting("my_subscriptions", tg, 0) ELSE h
    /\ UNCHANGED <<users, chats, subs, clock, sweep, notices, remind, chats_id_seq, main_pc, runs>>

\* db_utils.py lines 21-34, reached with no row found: add the user, commit
\* inside the caller's transaction, refresh.  The commit raises IntegrityError
\* when another session has inserted the telegram_id meanwhile; every error is
\* re-raised after a rollback.  On success the calling handler runs to its end.
\*   f = "user_commit": the commit of line 25 raises;
\*   f = "user_refresh": the refresh of line 26 raises, the user row is stored;
\*   f = "commit", "after_commit": as in select_chat_create; for the
\*       subscriptions list, "after_commit": get_active_subscriptions raises.
get_user_by_telegram_id(p) ==
    /\ h[p].pc = "user_insert"
    /\ LET tg     == h[p].tg
           op     == h[p].op
           stored == get_user_by_telegram_id_insert(users, tg)
       IN
       IF UserTelegramIdTaken(users, tg)
       THEN /\ reply' = "db_error"
            /\ UNCHANGED <<users, subs, faults>>
       ELSE \E ref \in IF op = "select_chat" THEN payment_reference(subs) ELSE {NULL},
               f \in Outcomes({"user_commit", "user_refresh", "after_commit"}
                              \cup IF op = "select_chat" THEN {"commit"} ELSE {}) :
              LET done == select_chat_create(stored, chats, subs, Len(stored), h[p].chat,
                                             ref, f, clock)
              IN
              /\ Fault(f)
              /\ users' = IF f = "user_commit" THEN users ELSE stored
              /\ subs' = IF f \notin {"user_commit", "user_refresh"} /\ op = "select_chat"
                         THEN done.rows ELSE subs
              /\ reply' = IF f \in {"user_commit", "user_refresh"} THEN "db_error"
                          ELSE IF op = "select_chat" THEN done.text
                          ELSE IF f = "after_commit" THEN "db_error"
                          ELSE my_subscriptions_text(stored, subs, tg, clock)
    /\ h' = [h EXCEPT ![p] = IdleSession]
    /\ UNCHANGED <<chats, clock, sweep, notices, remind, chats_id_seq, main_pc, runs>>

---------------------------------------------------------------------------
(* handlers.py: confirm_payment_callback *)

\* Line 250 with `user` bound to the caller's row.
confirm_payment_user_is_resolved == TRUE

\* Line 250 reads the name `user`.  The function never binds it and the module
\* defines no such global (it imports the class User): the read raises
\* NameError, which the handler's `except Exception` answers.
confirm_payment_user_is_bound == FALSE

\* Lines 243-300 with the store answering: the text the user gets and the
\* rows to commit.
confirm_payment_transaction(us, ss, tg, sid) ==
    IF ~get_subscription_by_id(ss, sid)
    THEN [text |-> "sub_not_found", rows |-> ss]
    ELSE IF ~confirm_payment_user_is_bound
    THEN [text |-> "unexpected_error", rows |-> ss]
    ELSE IF ss[sid].user_id # get_user_by_telegram_id_select(us, tg)
    THEN [text |-> "not_yours", rows |-> ss]
    ELSE IF ss[sid].status = "active"
    THEN [text |-> "already_active", rows |-> ss]
    ELSE [text |-> "activated", rows |-> update_subscription_status(ss, sid, "active")]

\* Lines 222-300.  f = "store": get_subscription_by_id raises; f = "commit": the
\* commit of line 268 raises.
confirm_payment_callback(tg, sid) ==
    /\ LET t == confirm_payment_transaction(users, subs, tg, sid) IN
       \E f \in Outcomes({"store"} \cup (IF t.rows # subs THEN {"commit"} ELSE {})) :
        /\ Fault(f)
        /\ subs' = IF f = "ok" THEN t.rows ELSE subs
        /\ reply' = IF f = "ok" THEN t.text ELSE "db_error"
    /\ UNCHANGED <<users, chats, clock, h, sweep, notices, remind, chats_id_seq, main_pc, runs>>

---------------------------------------------------------------------------
(* handlers.py: process_expired_subscriptions *)

\* Lines 443-470: the transaction that session.begin() opens is open until the
\* commit of line 470 (or the error that ends the run); the loop of lines
\* 447-469 runs inside it.
process_expired_transaction_open == sweep.pc = "loop"

\* A commit after the first record of the batch only.
flush_status_first_only(ss, ids, new_status) ==
    [id \in DOMAIN ss |->
        IF id \in ids /\ \A other \in ids : id <= other
        THEN update_subscription_status(ss, id, new_status)[id] ELSE ss[id]]

\* The rows after the session's pending status changes of `ids` are flushed.
flush_status(ss, ids, new_status) ==
    [id \in DOMAIN ss |->
        IF id \in ids THEN update_subscription_status(ss, id, new_status)[id] ELSE ss[id]]

\* Lines 440-445 without the handlers of lines 472-476: a store error leaves
\* the job function as an exception.
process_expired_subscriptions_uncaught(f) ==
    /\ sweep.pc = "idle"
    /\ f \in Outcomes({"store"})
    /\ Fault(f)
    /\ sweep' = IF f = "store"
                THEN [IdleSweep EXCEPT !.pc = "raised", !.now = clock, !.result = "failed"]
                ELSE LET due == get_expired_subscriptions(subs, clock) IN
                     [pc |-> "loop", now |-> clock, expired_subs |-> due,
                      todo |-> due, result |-> sweep.result]
    /\ UNCHANGED <<users, chats, subs, clock, h, reply, notices, remind, chats_id_seq, main_pc, runs>>

\* A run of the job, called with a context whose application.bot_data holds the
\* session factory (line 435).
\* Lines 440-445: open the session and the transaction, get_expired_subscriptions.
process_expired_subscriptions(f) ==
    /\ sweep.pc = "idle"
    /\ f \in Outcomes({"store"})
    /\ Fault(f)
    /\ sweep' = IF f = "store"
                THEN [IdleSweep EXCEPT !.now = clock, !.result = "failed"]
                ELSE LET due == get_expired_subscriptions(subs, clock) IN
                     [pc |-> "loop", now |-> clock, expired_subs |-> due,
                      todo |-> due, result |-> sweep.result]
    /\ UNCHANGED <<users, chats, subs, clock, h, reply, notices, remind, chats_id_seq, main_pc, runs>>

\* Lines 455-466 without the try: a send that raises ends the run.
process_expired_record_send_aborts(s, f) ==
    /\ sweep.pc = "loop"
    /\ s \in sweep.todo
    /\ f \in Outcomes({"store", "send"})
    /\ Fault(f)
    /\ sweep' = IF f = "ok" THEN [sweep EXCEPT !.todo = @ \ {s}]
                ELSE [IdleSweep EXCEPT !.now = sweep.now, !.result = "failed"]
    /\ notices' = IF f # "store" /\ get_subscription_by_id(subs, s)
                  THEN [notices EXCEPT
                          ![s].expired = @ + 1,
                          ![s].removed = IF f = "send" THEN @ ELSE @ + 1]
                  ELSE notices
    /\ UNCHANGED <<users, chats, subs, clock, h, reply, remind, chats_id_seq, main_pc, runs>>

\* Lines 447-469, one iteration: update_subscription_status, then the expiry
\* notice (line 457) and the removal placeholder (line 460), both inside the
\* open transaction.  A send that raises is logged and skips the second send.
process_expired_record(s, f) ==
    /\ sweep.pc = "loop"
    /\ s \in sweep.todo
    /\ f \in Outcomes({"store", "send"})
    /\ Fault(f)
    /\ IF f = "store"
       THEN /\ sweep' = [IdleSweep EXCEPT !.now = sweep.now, !.result = "failed"]
            /\ notices' = notices
       ELSE /\ sweep' = [sweep EXCEPT !.todo = @ \ {s}]
            /\ notices' = IF get_subscription_by_id(subs, s)
                          THEN [notices EXCEPT
                                  ![s].expired = @ + 1,
                                  ![s].removed = IF f = "send" THEN @ ELSE @ + 1]
                          ELSE notices
    /\ UNCHANGED <<users, chats, subs, clock, h, reply, remind, chats_id_seq, main_pc, runs>>

\* Line 470: the one commit of the batch; a failure rolls the batch back.
process_expired_commit(f) ==
    /\ sweep.pc = "loop"
    /\ sweep.todo = {}
    /\ f \in Outcomes({"commit"})
    /\ Fault(f)
    /\ subs' = IF f = "ok" THEN flush_status(subs, sweep.expired_subs, "expired") ELSE subs
    /\ sweep' = [IdleSweep EXCEPT !.now = sweep.now,
                                  !.result = IF f = "ok" THEN "ok" ELSE "failed"]
    /\ UNCHANGED <<users, chats, clock, h, reply, notices, remind, chats_id_seq, main_pc, runs>>

---------------------------------------------------------------------------
(* handlers.py: send_renewal_reminders *)

\* A run of the job, called with a context whose application.bot_data holds
\* the settings and the session factory (lines 391-401).
\* Lines 404-414: get_subscriptions_ending_soon in a session of its own; a
\* store error ends the run.
send_renewal_reminders(f) ==
    /\ remind.pc = "idle"
    /\ \A id \in SubArgs : notices[id].reminder < MaxReminders
    /\ f \in Outcomes({"store"})
    /\ Fault(f)
    /\ remind' = IF f = "store" THEN IdleRemind
                 ELSE LET soon == get_subscriptions_ending_soon(subs, REMINDER_DAYS_AHEAD, clock)
                      IN  [pc |-> "loop", subscriptions_ending_soon |-> soon,
                           todo |-> soon, failed |-> {}, sent |-> {}]
    /\ UNCHANGED <<users, chats, subs, clock, h, reply, sweep, notices, chats_id_seq, main_pc, runs>>

\* Line 423: the reminder of subscription s is addressed to the telegram_id of
\* its user row (sub.user, loaded with the subscription).
reminder_chat_id(us, ss, s) == us[ss[s].user_id].telegram_id

\* Lines 416-426 with update_subscription_status(session, sub.id, 'expired')
\* and a commit after the send.
send_renewal_reminder_expires(s, f) ==
    /\ remind.pc = "loop"
    /\ s \in remind.todo
    /\ f \in Outcomes({"send"})
    /\ Fault(f)
    /\ remind' = [remind EXCEPT !.todo = @ \ {s},
                                !.failed = IF f = "send" THEN @ \cup {s} ELSE @,
                                !.sent = @ \cup {<<s, reminder_chat_id(users, subs, s)>>}]
    /\ notices' = [notices EXCEPT ![s].reminder = @ + 1]
    /\ subs' = update_subscription_status(subs, s, "expired")
    /\ UNCHANGED <<users, chats, clock, h, reply, sweep, chats_id_seq, main_pc, runs>>

\* Lines 416-426 without the try: a send that raises ends the run.
send_renewal_reminder_send_aborts(s, f) ==
    /\ remind.pc = "loop"
    /\ s \in remind.todo
    /\ f \in Outcomes({"send"})
    /\ Fault(f)
    /\ remind' = IF f = "send" THEN IdleRemind
                 ELSE [remind EXCEPT !.todo = @ \ {s},
                                     !.sent = @ \cup {<<s, reminder_chat_id(users, subs, s)>>}]
    /\ notices' = [notices EXCEPT ![s].reminder = @ + 1]
    /\ UNCHANGED <<users, chats, subs, clock, h, reply, sweep, chats_id_seq, main_pc, runs>>

\* Lines 416-426, one iteration: the reminder is sent; a send that raises is
\* logged (remind.failed) and the loop goes on.
send_renewal_reminder(s, f) ==
    /\ remind.pc = "loop"
    /\ s \in remind.todo
    /\ f \in Outcomes({"send"})
    /\ Fault(f)
    /\ remind' = [remind EXCEPT !.todo = @ \ {s},
                                !.failed = IF f = "send" THEN @ \cup {s} ELSE @,
                                !.sent = @ \cup {<<s, reminder_chat_id(users, subs, s)>>}]
    /\ notices' = [notices EXCEPT ![s].reminder = @ + 1]
    /\ UNCHANGED <<users, chats, subs, clock, h, reply, sweep, chats_id_seq, main_pc, runs>>

\* Line 427: the loop is over.
send_renewal_reminders_completed ==
    /\ remind.pc = "loop"
    /\ remind.todo = {}
    /\ remind' = IdleRemind
    /\ UNCHANGED <<users, chats, subs, clock, h, reply, sweep, notices, faults, chats_id_seq, main_pc, runs>>

---------------------------------------------------------------------------

Next ==
    \/ Tick
    \/ \E tg \in TgIds, c \in ChatArgs : select_chat_callback(tg, c)
    \/ \E tg \in TgIds : user_my_subscriptions_callback(tg)
    \/ \E p \in Sessions : get_user_by_telegram_id(p)
    \/ \E tg \in TgIds, sid \in SubArgs : confirm_payment_callback(tg, sid)
    \/ \E f \in {"ok", "store"} : process_expired_subscriptions(f)
    \/ \E s \in SubArgs, f \in {"ok", "store", "send"} : process_expired_record(s, f)
    \/ \E f \in {"ok", "commit"} : process_expired_commit(f)

Spec == Init /\ [][Next]_vars

---------------------------------------------------------------------------
(* admin_handlers.py: toggle_chat_status_callback, execute_remove_chat_callback *)

\* Lines 207-241, called by an admin.  f = "store": get_chat_by_id raises;
\* f = "commit": the commit of line 220 raises.
toggle_chat_status_callback(c, f) ==
    /\ f \in Outcomes({"store"} \cup (IF get_chat_by_id(chats, c) THEN {"commit"} ELSE {}))
    /\ Fault(f)
    /\ chats' = IF f = "ok" /\ get_chat_by_id(chats, c)
                THEN update_chat_details(chats, c, ~chats[c].is_active)
                ELSE chats
    /\ reply' = IF f # "ok" THEN "toggle_db_error"
                ELSE IF ~get_chat_by_id(chats, c) THEN "chat_not_found"
                ELSE "chat_toggled"
    /\ UNCHANGED <<users, subs, clock, h, sweep, notices, remind, chats_id_seq, main_pc, runs>>

\* Lines 300-335, called by an admin.  delete_chat_by_id marks the chat for
\* deletion and the commit of line 306 flushes it: IntegrityError when a
\* subscription references the chat.  Every SQLAlchemyError gets one of the
\* texts of lines 324-326.  f = "store": get_chat_by_id raises; f = "commit":
\* the commit raises for another reason.
execute_remove_chat_callback(c, f) ==
    /\ f \in Outcomes({"store"} \cup (IF get_chat_by_id(chats, c) THEN {"commit"} ELSE {}))
    /\ Fault(f)
    /\ LET blocked == ChatReferenced(subs, c) IN
       /\ chats' = IF f = "ok" /\ get_chat_by_id(chats, c) /\ ~blocked
                   THEN delete_chat_by_id(chats, c)
                   ELSE chats
       /\ reply' = IF f # "ok" THEN "remove_db_error"
                   ELSE IF ~get_chat_by_id(chats, c) THEN "chat_not_found"
                   ELSE IF blocked THEN "remove_db_error"
                   ELSE "chat_removed"
    /\ UNCHANGED <<users, subs, clock, h, sweep, notices, remind, chats_id_seq, main_pc, runs>>

\* Lines 589-637, called by an admin at the end of the add-chat conversation
\* with the telegram chat id it collected: create_chat with is_active left at
\* its default True, and the commit of line 617.  f = "store": the SELECT of
\* create_chat raises; f = "commit": the commit raises (an id the INSERT drew
\* from the sequence is not given back).
confirm_create_chat_callback(telegram_chat_id, f) ==
    /\ chats_id_seq < MaxChats
    /\ f \in Outcomes({"store", "commit"})
    /\ Fault(f)
    /\ LET created == create_chat(chats, chats_id_seq, telegram_chat_id, TRUE) IN
       /\ chats' = IF f = "ok" THEN created ELSE chats
       /\ chats_id_seq' = IF f # "store" /\ DOMAIN created # DOMAIN chats
                          THEN chats_id_seq + 1 ELSE chats_id_seq
    /\ reply' = IF f = "ok" THEN "chat_created" ELSE "create_db_error"
    /\ UNCHANGED <<users, subs, clock, h, sweep, notices, remind, main_pc, runs>>

\* The store of Init with a second chat, inactive, that no subscription
\* references.
InitChats ==
    /\ users = <<[telegram_id |-> 1]>>
    /\ chats = <<[telegram_chat_id |-> 100, is_active |-> TRUE],
                 [telegram_chat_id |-> 200, is_active |-> FALSE]>>
    /\ \E s1 \in Statuses :
          subs = << create_subscription(1, 1, duration_days, s1, 1, 0 - duration_days),
                    create_subscription(1, 1, duration_days, "active", NULL, 1 - duration_days) >>
    /\ clock = 0
    /\ h = [p \in Sessions |-> IdleSession]
    /\ reply = "none"
    /\ sweep = IdleSweep
    /\ notices = [id \in SubArgs |-> NoNotice]
    /\ faults = 0
    /\ remind = IdleRemind
    /\ chats_id_seq = Len(chats)
    /\ main_pc = "start"
    /\ runs = [r \in Runs |-> IdleRun]

NextChats ==
    \/ \E tg \in TgIds, c \in ChatRowArgs : select_chat_callback(tg, c)
    \/ \E p \in Sessions : get_user_by_telegram_id(p)
    \/ \E c \in ChatRowArgs, f \in {"ok", "store", "commit"} : toggle_chat_status_callback(c, f)
    \/ \E c \in ChatRowArgs, f \in {"ok", "store", "commit"} : execute_remove_chat_callback(c, f)
    \/ \E tgc \in TelegramChatArgs, f \in {"ok", "store", "commit"} :
          confirm_create_chat_callback(tgc, f)

SpecChats == InitChats /\ [][NextChats]_vars

\* select_chat_callback beside the removal of chats alone.
NextSelect ==
    \/ \E tg \in TgIds, c \in ChatRowArgs : select_chat_callback(tg, c)
    \/ \E p \in Sessions : get_user_by_telegram_id(p)
    \/ \E c \in ChatRowArgs, f \in {"ok", "store"} : execute_remove_chat_callback(c, f)

SpecSelect == InitChats /\ [][NextSelect]_vars

---------------------------------------------------------------------------
(* The two scheduled jobs over a store with batches of several records *)

\* Two users and three subscriptions to one chat, made by create_subscription:
\* two of the first user, 30 and 29 days ago, the older in any status, the
\* younger active; one of the second user, active, 28 or 25 days ago.
InitJobs ==
    /\ users = <<[telegram_id |-> 1], [telegram_id |-> 2]>>
    /\ chats = <<[telegram_chat_id |-> 100, is_active |-> TRUE]>>
    /\ \E s1 \in Statuses, start3 \in {2 - duration_days, 5 - duration_days} :
          subs = << create_subscription(1, 1, duration_days, s1, 1, 0 - duration_days),
                    create_subscription(1, 1, duration_days, "active", 2, 1 - duration_days),
                    create_subscription(2, 1, duration_days, "active", NULL, start3) >>
    /\ clock = 0
    /\ h = [p \in Sessions |-> IdleSession]
    /\ reply = "none"
    /\ sweep = IdleSweep
    /\ notices = [id \in SubArgs |-> NoNotice]
    /\ faults = 0
    /\ remind = IdleRemind
    /\ chats_id_seq = Len(chats)
    /\ main_pc = "start"
    /\ runs = [r \in Runs |-> IdleRun]

NextJobs ==
    \/ Tick
    \/ \E f \in {"ok", "store"} : process_expired_subscriptions(f)
    \/ \E s \in SubArgs, f \in {"ok", "store", "send"} : process_expired_record(s, f)
    \/ \E f \in {"ok", "commit"} : process_expired_commit(f)
    \/ \E f \in {"ok", "store"} : send_renewal_reminders(f)
    \/ \E s \in SubArgs, f \in {"ok", "send"} : send_renewal_reminder(s, f)
    \/ send_renewal_reminders_completed

SpecJobs == InitJobs /\ [][NextJobs]_vars

---------------------------------------------------------------------------
(* db_utils.py: create_subscription over the arguments it accepts *)

\* duration_days is declared int and is not checked: the values a caller may
\* pass, the handler's 30 among them.
DurationArgs == {0 - 1, 0, 1, duration_days}

\* Lines 36-63 and the caller's commit: the row is added to the session and
\* stored unless a constraint of the table refuses it.
create_subscription_call(user_id, chat_id, days, status, payment_id) ==
    /\ Len(subs) < MaxSubs
    /\ LET row == create_subscription(user_id, chat_id, days, status, payment_id, clock) IN
       /\ ~PaymentIdTaken(subs, payment_id)
       /\ ForeignKeysHold(users, chats, row)
       /\ subs' = Append(subs, row)
    /\ UNCHANGED <<users, chats, clock, h, reply, sweep, notices, faults, remind, chats_id_seq, main_pc, runs>>

NextCreate ==
    \/ Tick
    \/ \E user_id \in DOMAIN users, chat_id \in DOMAIN chats, days \in DurationArgs,
          status \in Statuses, payment_id \in {NULL, Len(subs) + 1} :
            create_subscription_call(user_id, chat_id, days, status, payment_id)

SpecCreate == Init /\ [][NextCreate]_vars

---------------------------------------------------------------------------
(* db_utils.py: the operations called one by one, each followed by the
   caller's commit.  reply holds what the call gave its caller: the kind of
   value it returned, or "raised". *)

\* Lines 127-149.  f = "store": the SELECT of line 133 raises, the except of
\* lines 145-148 logs and re-raises.
update_subscription_status_call(id, new_status, f) ==
    /\ f \in Outcomes({"store"})
    /\ Fault(f)
    /\ subs' = IF f = "ok" THEN update_subscription_status(subs, id, new_status) ELSE subs
    /\ reply' = IF f = "store" THEN "raised"
                ELSE IF get_subscription_by_id(subs, id) THEN "Subscription"
                ELSE "None"
    /\ UNCHANGED <<users, chats, clock, h, sweep, notices, remind, chats_id_seq, main_pc, runs>>

\* Lines 151-167.
get_chat_by_id_call(c, f) ==
    /\ f \in Outcomes({"store"})
    /\ Fault(f)
    /\ reply' = IF f = "store" THEN "raised"
                ELSE IF get_chat_by_id(chats, c) THEN "Chat"
                ELSE "None"
    /\ UNCHANGED <<users, chats, subs, clock, h, sweep, notices, remind, chats_id_seq, main_pc, runs>>

\* Lines 285-308 with `return False` in the except of lines 305-308, as the
\* docstring has it.
delete_chat_by_id_call_returns_false(c, f) ==
    /\ f \in Outcomes({"store"})
    /\ Fault(f)
    /\ chats' = IF f = "ok" /\ get_chat_by_id(chats, c) /\ ~ChatReferenced(subs, c)
                THEN delete_chat_by_id(chats, c)
                ELSE chats
    /\ reply' = IF f = "store" THEN "False"
                ELSE IF get_chat_by_id(chats, c) THEN "True"
                ELSE "False"
    /\ UNCHANGED <<users, subs, clock, h, sweep, notices, remind, chats_id_seq, main_pc, runs>>

\* Lines 285-308: True once the chat is marked for deletion (line 301), False
\* when get_chat_by_id found no chat (line 304); f = "store": the SELECT
\* raises, the except of lines 305-308 logs and re-raises.  The caller's
\* commit stores the deletion unless a subscription references the chat.
delete_chat_by_id_call(c, f) ==
    /\ f \in Outcomes({"store"})
    /\ Fault(f)
    /\ chats' = IF f = "ok" /\ get_chat_by_id(chats, c) /\ ~ChatReferenced(subs, c)
                THEN delete_chat_by_id(chats, c)
                ELSE chats
    /\ reply' = IF f = "store" THEN "raised"
                ELSE IF get_chat_by_id(chats, c) THEN "True"
                ELSE "False"
    /\ UNCHANGED <<users, subs, clock, h, sweep, notices, remind, chats_id_seq, main_pc, runs>>

NextRepository ==
    \/ \E id \in SubArgs, new_status \in Statuses, f \in {"ok", "store"} :
          update_subscription_status_call(id, new_status, f)
    \/ \E c \in ChatRowArgs, f \in {"ok", "store"} : get_chat_by_id_call(c, f)
    \/ \E c \in ChatRowArgs, f \in {"ok", "store"} : delete_chat_by_id_call(c, f)

SpecRepository == InitChats /\ [][NextRepository]_vars

---------------------------------------------------------------------------
(* main.py: main(), which is what schedules the two jobs *)

\* Lines 23-65: the settings are read, the engine and the tables are made, the
\* error handler, the user handlers and the admin command are added.
main_setup ==
    /\ main_pc = "start"
    /\ main_pc' = "admin_callbacks"
    /\ UNCHANGED <<users, chats, subs, clock, h, reply, sweep, notices, faults, remind, chats_id_seq, runs>>

\* Line 68 reads admin_handlers.admin_panel_callback.  admin_handlers.py
\* defines admin_panel and admin_panel_return_callback, no admin_panel_callback:
\* the attribute lookup raises AttributeError, which leaves main() (the try of
\* line 117 is not yet entered) and is logged at lines 145-146.  The process
\* ends before line 106 makes the scheduler.
main_add_admin_callbacks ==
    /\ main_pc = "admin_callbacks"
    /\ main_pc' = "raised"
    /\ UNCHANGED <<users, chats, subs, clock, h, reply, sweep, notices, faults, remind, chats_id_seq, runs>>

\* Lines 106-113: scheduler.start() is reached only by a main() that is past
\* line 102.
scheduler_running == main_pc = "polling"

\* What main() makes happen, and what it leaves to others: the job functions
\* stay callable by whoever holds a context, but no step of main() calls them
\* or obliges anyone to.
NextMain ==
    \/ main_setup
    \/ main_add_admin_callbacks
    \/ Tick
    \/ \E f \in {"ok", "store"} : process_expired_subscriptions(f)
    \/ \E s \in SubArgs, f \in {"ok", "store", "send"} : process_expired_record(s, f)
    \/ \E f \in {"ok", "commit"} : process_expired_commit(f)

\* The process runs and time passes; a sweep is owed to nobody.
SpecMain ==
    /\ InitJobs
    /\ [][NextMain]_vars
    /\ WF_vars(main_setup)
    /\ WF_vars(main_add_admin_callbacks)
    /\ WF_vars(Tick)

\* The sweep as a daily cron job would run it: a run is started whenever none
\* is under way, and a started run is carried to its end.
SpecSweepScheduled ==
    /\ InitJobs
    /\ [][NextJobs]_vars
    /\ WF_vars(\E f \in {"ok", "store"} : process_expired_subscriptions(f))
    /\ WF_vars(\E s \in SubArgs, f \in {"ok", "store", "send"} : process_expired_record(s, f))
    /\ WF_vars(\E f \in {"ok", "commit"} : process_expired_commit(f))

---------------------------------------------------------------------------
(* handlers.py: two runs of process_expired_subscriptions that overlap *)

\* Each run has a session and a transaction of its own (lines 442-443) and
\* reads committed rows only.  get_expired_subscriptions is a plain SELECT: it
\* takes no row lock and is not held up by the other run's pending changes.
\* The UPDATE of a row is sent after the row's messages (autoflush at the next
\* SELECT, or the commit), so a row lock of the other run can delay a run's
\* later statements but none of its sends.
\*
\* Lines 440-445 of run r.  The second run starts while the first one is
\* inside its transaction.
overlapping_process_expired_subscriptions(r, f) ==
    /\ runs[r].pc = "idle"
    /\ r = 2 => runs[1].pc = "loop"
    /\ f \in Outcomes({"store"})
    /\ Fault(f)
    /\ runs' = [runs EXCEPT ![r] =
                  IF f = "store"
                  THEN [IdleRun EXCEPT !.pc = "done", !.result = "failed"]
                  ELSE LET due == get_expired_subscriptions(subs, clock) IN
                       [pc |-> "loop", expired_subs |-> due, todo |-> due,
                        notified |-> {}, result |-> "none"]]
    /\ UNCHANGED <<users, chats, subs, clock, h, reply, sweep, notices, remind, chats_id_seq, main_pc>>

\* Lines 447-469 of run r, one iteration: update_subscription_status finds the
\* row whatever status the other run has committed for it meanwhile (it
\* selects by id), then the two messages are sent.
overlapping_process_expired_record(r, s, f) ==
    /\ runs[r].pc = "loop"
    /\ s \in runs[r].todo
    /\ f \in Outcomes({"store", "send"})
    /\ Fault(f)
    /\ IF f = "store"
       THEN /\ runs' = [runs EXCEPT ![r].pc = "done", ![r].result = "failed"]
            /\ notices' = notices
       ELSE /\ runs' = [runs EXCEPT ![r].todo = @ \ {s},
                                    ![r].notified = IF f = "ok" /\ get_subscription_by_id(subs, s)
                                                    THEN @ \cup {s} ELSE @]
            /\ notices' = IF get_subscription_by_id(subs, s)
                          THEN [notices EXCEPT
                                  ![s].expired = @ + 1,
                                  ![s].removed = IF f = "send" THEN @ ELSE @ + 1]
                          ELSE notices
    /\ UNCHANGED <<users, chats, subs, clock, h, reply, sweep, remind, chats_id_seq, main_pc>>

\* Line 470 of run r.
overlapping_process_expired_commit(r, f) ==
    /\ runs[r].pc = "loop"
    /\ runs[r].todo = {}
    /\ f \in Outcomes({"commit"})
    /\ Fault(f)
    /\ subs' = IF f = "ok" THEN flush_status(subs, runs[r].expired_subs, "expired") ELSE subs
    /\ runs' = [runs EXCEPT ![r].pc = "done",
                            ![r].result = IF f = "ok" THEN "ok" ELSE "failed"]
    /\ UNCHANGED <<users, chats, clock, h, reply, sweep, notices, remind, chats_id_seq, main_pc>>

NextOverlap ==
    \/ Tick
    \/ \E r \in Runs, f \in {"ok", "store"} : overlapping_process_expired_subscriptions(r, f)
    \/ \E r \in Runs, s \in SubArgs, f \in {"ok", "store", "send"} :
          overlapping_process_expired_record(r, s, f)
    \/ \E r \in Runs, f \in {"ok", "commit"} : overlapping_process_expired_commit(r, f)

SpecOverlap == InitJobs /\ [][NextOverlap]_vars

---------------------------------------------------------------------------
(* Properties *)

Owns(tg, sid) ==
    /\ sid \in DOMAIN subs
    /\ get_user_by_telegram_id_select(users, tg) = subs[sid].user_id

Due(id, now) == subs[id].status = "active" /\ subs[id].end_date <= now

\* C1: a run of process_expired_subscriptions that queries at time now loads
\* exactly the subscriptions that are active with end_date <= now; its commit
\* sets exactly those to 'expired' and leaves every other row as it was; no
\* other step of the run changes a row.
SweepFlipsAllAndOnlyDue ==
    [][ /\ process_expired_subscriptions("ok") =>
              sweep'.expired_subs = {id \in DOMAIN subs : Due(id, clock)}
        /\ process_expired_commit("ok") =>
              /\ DOMAIN subs' = DOMAIN subs
              /\ \A id \in DOMAIN subs :
                    subs'[id] = IF id \in sweep.expired_subs
                                THEN [subs[id] EXCEPT !.status = "expired"]
                                ELSE subs[id]
        /\ (\/ process_expired_subscriptions("store")
            \/ process_expired_commit("commit")
            \/ \E s \in SubArgs, f \in {"ok", "store", "send"} : process_expired_record(s, f))
              => subs' = subs
      ]_vars

\* C1 witness: a run has committed; it expired a due subscription and left an
\* active one that was not yet due.
SweepFlippedDueAndKeptOther ==
    /\ sweep.pc = "idle" /\ sweep.result = "ok"
    /\ \E a \in DOMAIN subs, b \in DOMAIN subs :
          /\ subs[a].status = "expired" /\ notices[a].expired > 0
          /\ subs[b].status = "active" /\ subs[b].end_date > sweep.now

\* C2: a run of process_expired_subscriptions that starts after a committed
\* run, with no time passed since that run's query, finds no due subscription;
\* a run that found none changes no row and sends nothing.
SecondSweepFindsNothing ==
    [][ /\ (process_expired_subscriptions("ok") /\ sweep.result = "ok" /\ sweep.now = clock)
              => sweep'.expired_subs = {}
        /\ \A f \in {"ok", "commit"} :
              (process_expired_commit(f) /\ sweep.expired_subs = {})
                 => subs' = subs /\ notices' = notices
      ]_vars

\* C2 witness: a run is under way with an empty batch, right after a run that
\* committed the expiry of a subscription whose end_date is the current time.
SecondSweepUnderWay ==
    /\ sweep.pc = "loop" /\ sweep.result = "ok" /\ sweep.expired_subs = {}
    /\ \E id \in DOMAIN subs :
          subs[id].status = "expired" /\ notices[id].expired > 0 /\ subs[id].end_date = clock

\* C3: confirm_payment_callback invoked by the owner of a pending_payment
\* subscription, the store answering, commits the subscription as 'active'
\* with its end_date unchanged.
ConfirmActivatesPending ==
    [][ \A tg \in TgIds, sid \in SubArgs :
          (/\ confirm_payment_callback(tg, sid)
           /\ Owns(tg, sid)
           /\ subs[sid].status = "pending_payment"
           /\ faults' = faults)
             => /\ subs'[sid].status = "active"
                /\ subs'[sid].end_date = subs[sid].end_date
                /\ reply' = "activated"
      ]_vars

\* C4: confirm_payment_callback invoked by a caller who is not the
\* subscription's user, the store answering, ends with the 'does not belong to
\* you' answer and leaves the rows unchanged.
ConfirmRejectsOtherUser ==
    [][ \A tg \in TgIds, sid \in SubArgs :
          (/\ confirm_payment_callback(tg, sid)
           /\ sid \in DOMAIN subs
           /\ ~Owns(tg, sid)
           /\ faults' = faults)
             => reply' = "not_yours" /\ subs' = subs
      ]_vars

\* C5: confirm_payment_callback invoked by the owner of an active
\* subscription, the store answering, answers 'already active' and changes no
\* row.
ConfirmOfActiveIsNoOp ==
    [][ \A tg \in TgIds, sid \in SubArgs :
          (/\ confirm_payment_callback(tg, sid)
           /\ Owns(tg, sid)
           /\ subs[sid].status = "active"
           /\ faults' = faults)
             => reply' = "already_active" /\ subs' = subs
      ]_vars

\* C6: a select_chat_callback run that has begun the user lookup-or-create and
\* then stores no subscription (the insert or the commit failed) stores no
\* user row either.
SelectChatStoresAllOrNothing ==
    [][ \A p \in Sessions :
          (/\ get_user_by_telegram_id(p)
           /\ h[p].op = "select_chat"
           /\ reply' = "db_error"
           /\ subs' = subs)
             => users' = users
      ]_vars

\* C7: the users table never holds two rows with the same telegram_id.
UserUniqueness ==
    \A a \in DOMAIN users, b \in DOMAIN users :
        users[a].telegram_id = users[b].telegram_id => a = b

\* C7 witness: a run that read 'no such user' is about to insert a
\* telegram_id that another session has inserted since.
UserInsertAfterLostRace ==
    \E p \in Sessions : h[p].pc = "user_insert" /\ UserTelegramIdTaken(users, h[p].tg)

\* C8: a get_user_by_telegram_id call that lost the insert race goes on with
\* the stored row: the store answering, its handler ends as it would have ended
\* had the SELECT found the row.
LostRaceFetchesExisting ==
    [][ \A p \in Sessions :
          (/\ get_user_by_telegram_id(p)
           /\ UserTelegramIdTaken(users, h[p].tg)
           /\ faults' = faults)
             => LET uid  == get_user_by_telegram_id_select(users, h[p].tg)
                    done == select_chat_create(users, chats, subs, uid, h[p].chat,
                                               Len(subs) + 1, "ok", clock)
                IN  IF h[p].op = "select_chat"
                    THEN subs' = done.rows /\ reply' = done.text
                    ELSE subs' = subs
                         /\ reply' = my_subscriptions_text(users, subs, h[p].tg, clock)
      ]_vars

\* C9: a subscription that the sweep sets to 'expired' has had exactly one
\* expiry notice sent when the change is committed, and none is sent later.
ExactlyOneExpiryNotice ==
    [][ \A id \in DOMAIN subs :
          /\ (subs[id].status = "active" /\ subs'[id].status = "expired")
                => notices'[id].expired = 1
          /\ subs[id].status = "expired" => notices'[id] = notices[id]
      ]_vars

\* C10: an expiry notice is sent for a subscription only once its status
\* 'expired' is committed.
NoticeFollowsCommit ==
    \A id \in DOMAIN subs : notices[id].expired > 0 => subs[id].status = "expired"

\* C11: the status changes of one process_expired_subscriptions run are
\* committed together or not at all: while the run is under way every
\* subscription of its batch is still stored as 'active'; a step of the run
\* either leaves the rows as they are or is the commit that stores the whole
\* batch as 'expired'; a run that ends in failure has changed no row.
SweepAllOrNothing ==
    [][ sweep' # sweep =>
          /\ sweep.pc = "loop" =>
                \A id \in sweep.expired_subs : subs[id].status = "active"
          /\ \/ subs' = subs
             \/ /\ sweep.pc = "loop" /\ sweep'.pc = "idle" /\ sweep'.result = "ok"
                /\ \A id \in sweep.expired_subs : subs'[id].status = "expired"
          /\ (sweep'.pc = "idle" /\ sweep'.result = "failed") =>
                /\ subs' = subs
                /\ \A id \in sweep.expired_subs : subs'[id].status = "active"
      ]_vars

\* C11 witness: a run whose batch held a due subscription has failed after
\* sending its notice; the subscription is still stored as 'active'.
SweepFailedBatchStillActive ==
    /\ sweep.pc = "idle" /\ sweep.result = "failed"
    /\ \E id \in DOMAIN subs :
          notices[id].expired > 0 /\ Due(id, sweep.now)

DuplicateConfirmIsNoOp ==
    [][ \A tg \in TgIds, sid \in SubArgs :
          (/\ confirm_payment_callback(tg, sid)
           /\ Owns(tg, sid)
           /\ subs[sid].status \in {"pending_payment", "active"}
           /\ faults' = faults)
             => /\ subs'[sid] = [subs[sid] EXCEPT !.status = "active"]
                /\ reply' = IF subs[sid].status = "active"
                            THEN "already_active" ELSE "activated"
      ]_vars

\* C14: a select_chat_callback run of telegram user tg for chat c that ends
\* with the payment instructions has stored exactly one new subscription row,
\* of tg's user row and chat c, 'pending_payment', with end_date 30 days after
\* its start_date and a payment reference that is not NULL; the rows stored
\* before are unchanged.
CreateYieldsPending ==
    [][ \A tg \in TgIds, c \in ChatArgs :
          (/\ reply' = "payment_info"
           /\ \/ select_chat_callback(tg, c) /\ h' = h
              \/ \E p \in Sessions :
                    /\ get_user_by_telegram_id(p)
                    /\ h[p].op = "select_chat" /\ h[p].tg = tg /\ h[p].chat = c)
             => /\ Len(subs') = Len(subs) + 1
                /\ SubSeq(subs', 1, Len(subs)) = subs
                /\ LET row == subs'[Len(subs')] IN
                   /\ row.user_id \in DOMAIN users'
                   /\ users'[row.user_id].telegram_id = tg
                   /\ row.chat_id = c
                   /\ row.status = "pending_payment"
                   /\ row.start_date = clock
                   /\ row.end_date = row.start_date + 30
                   /\ row.payment_id # NULL
      ]_vars

\* C14 witness: the payment instructions were the last answer and the newest
\* row is the pending subscription of a user created by that run's lookup.
CreatedForFirstContact ==
    /\ reply = "payment_info"
    /\ Len(subs) > 2 /\ Len(users) > 1
    /\ subs[Len(subs)].status = "pending_payment"
    /\ subs[Len(subs)].user_id = Len(users)

\* C16: no db_utils operation commits.  user_my_subscriptions_callback has no
\* commit of its own and calls only get_user_by_telegram_id and
\* get_active_subscriptions: a run of it leaves the stored rows unchanged.
RepositoryNeverCommits ==
    [][ \A p \in Sessions :
          (get_user_by_telegram_id(p) /\ h[p].op = "my_subscriptions")
             => users' = users /\ subs' = subs
      ]_vars

\* C17: a select_chat_callback run makes its writes durable with at most one
\* commit.
OneCommitPerOperation ==
    [][ /\ \A tg \in TgIds, c \in ChatArgs :
              select_chat_callback(tg, c)
                 => select_chat_commits(users, users', subs, subs') <= 1
        /\ \A p \in Sessions :
              (get_user_by_telegram_id(p) /\ h[p].op = "select_chat")
                 => select_chat_commits(users, users', subs, subs') <= 1
      ]_vars

\* C20: a send that fails does not undo a status change.  In the sweep a
\* failed send leaves the run under way with its batch intact and the rows as
\* they are; the commit of the run stores every subscription of the batch as
\* 'expired'; a stored 'expired' is changed by no later step.  (In
\* confirm_payment_callback no send follows a status change: line 250 ends the
\* run before line 262.)
SendFailureKeepsStatusChange ==
    [][ /\ \A s \in SubArgs :
              process_expired_record(s, "send")
                 => /\ sweep'.pc = "loop"
                    /\ sweep'.expired_subs = sweep.expired_subs
                    /\ subs' = subs
        /\ process_expired_commit("ok")
              => \A id \in sweep.expired_subs : subs'[id].status = "expired"
        /\ \A id \in DOMAIN subs :
              subs[id].status = "expired"
                 => id \in DOMAIN subs' /\ subs'[id].status = "expired"
      ]_vars

\* C20 witness: a subscription is stored as 'expired' by a run in which the
\* send of its expiry notice failed (the removal message was skipped).
ExpiredThoughSendFailed ==
    \E id \in DOMAIN subs :
        /\ subs[id].status = "expired"
        /\ notices[id].expired = 1 /\ notices[id].removed = 0

\* C19: a send that fails for one record does not end the batch, in either
\* job.  An iteration, whether its send succeeds or fails, makes one send
\* attempt for its record, takes that record and no other off the records still
\* to do, and leaves the run under way.  send_renewal_reminders ends only with
\* no record left to do; process_expired_subscriptions, unless the store
\* fails, ends only with no record left to do and every subscription of its
\* batch stored as 'expired'.
NotifyFailureKeepsBatchGoing ==
    [][ /\ \A s \in SubArgs, f \in {"ok", "send"} :
              send_renewal_reminder(s, f)
                 => /\ remind'.pc = "loop"
                    /\ remind'.todo = remind.todo \ {s}
                    /\ notices'[s].reminder = notices[s].reminder + 1
                    /\ \A o \in SubArgs \ {s} : notices'[o] = notices[o]
        /\ \A s \in SubArgs, f \in {"ok", "send"} :
              process_expired_record(s, f)
                 => /\ sweep'.pc = "loop"
                    /\ sweep'.todo = sweep.todo \ {s}
                    /\ notices'[s].expired = notices[s].expired + 1
                    /\ \A o \in SubArgs \ {s} : notices'[o] = notices[o]
        /\ (remind.pc = "loop" /\ remind'.pc = "idle") => remind.todo = {}
        /\ (sweep.pc = "loop" /\ sweep'.pc = "idle" /\ faults' = faults)
              => /\ sweep.todo = {}
                 /\ \A id \in sweep.expired_subs : subs'[id].status = "expired"
      ]_vars

\* C19 witness: a reminder run over two records has no record left to do
\* although one of its sends failed; both records had their attempt.
BatchDoneDespiteFailedSend ==
    /\ remind.pc = "loop" /\ remind.todo = {}
    /\ Cardinality(remind.subscriptions_ending_soon) >= 2
    /\ remind.failed # {}
    /\ \A id \in remind.subscriptions_ending_soon : notices[id].reminder = 1

\* C15: select_chat_callback stores no subscription for a chat whose
\* is_active flag is false when the handler runs: every subscription row that
\* a step adds is for a chat that is stored as active at that step.
CreateRequiresActiveChat ==
    [][ \A id \in DOMAIN subs' \ DOMAIN subs :
          /\ subs'[id].chat_id \in DOMAIN chats
          /\ chats[subs'[id].chat_id].is_active
      ]_vars

\* C18: execute_remove_chat_callback for a chat that a subscription
\* references ends with the database-error answer and leaves the chat rows and
\* the subscription rows as they were.
ReferencedChatIsNotDeleted ==
    [][ \A c \in ChatArgs, f \in {"ok", "store", "commit"} :
          (/\ execute_remove_chat_callback(c, f)
           /\ get_chat_by_id(chats, c)
           /\ \E id \in DOMAIN subs : subs[id].chat_id = c)
             => /\ reply' = "remove_db_error"
                /\ chats' = chats
                /\ subs' = subs
      ]_vars

\* C18 witness: with no store failure so far, a removal was answered with the
\* database error; the unreferenced chat is gone, the referenced one is kept.
RemovalRefused ==
    /\ reply = "remove_db_error" /\ faults = 0
    /\ DOMAIN chats = {1}
    /\ \E id \in DOMAIN subs : subs[id].chat_id = 1

\* C21: no outward send is made while the sending run holds an open store
\* transaction: a step that sends an expiry notice or a removal message is
\* taken with no transaction of process_expired_subscriptions open.
NoSendInsideTransaction ==
    [][ \A id \in SubArgs :
          (\/ notices'[id].expired # notices[id].expired
           \/ notices'[id].removed # notices[id].removed)
             => ~process_expired_transaction_open
      ]_vars

\* C22: a run of send_renewal_reminders is read-only: none of its steps, the
\* query, an iteration whose send succeeds or fails, the end of the loop,
\* changes a user, chat or subscription row.
ReminderRunIsReadOnly ==
    [][ (\/ \E f \in {"ok", "store"} : send_renewal_reminders(f)
         \/ \E s \in SubArgs, f \in {"ok", "send"} : send_renewal_reminder(s, f)
         \/ send_renewal_reminders_completed)
           => users' = users /\ chats' = chats /\ subs' = subs
      ]_vars

\* C22 witness: a run has sent a reminder for a subscription and failed to
\* send another; both are stored as 'active' with their end_date in the
\* window the run queried.
RemindedStillActive ==
    /\ remind.pc = "loop"
    /\ \E a \in remind.failed, b \in remind.subscriptions_ending_soon \ remind.todo :
          /\ a # b /\ b \notin remind.failed
          /\ \A id \in {a, b} :
                /\ subs[id].status = "active"
                /\ notices[id].reminder > 0
                /\ subs[id].end_date > clock
                /\ subs[id].end_date <= clock + REMINDER_DAYS_AHEAD

\* C23: a store error in a job's run ends that run and nothing else.  A run of
\* process_expired_subscriptions whose query, status update or commit raises,
\* and a run of send_renewal_reminders whose query raises, is over after that
\* step, has changed no row, and leaves the job ready for its next run; the
\* next run whose query is answered loads the records that are due then.
JobsTolerateStoreFailure ==
    [][ /\ (\/ process_expired_subscriptions("store")
             \/ \E s \in SubArgs : process_expired_record(s, "store")
             \/ process_expired_commit("commit"))
               => /\ sweep'.pc = "idle" /\ sweep'.result = "failed"
                  /\ users' = users /\ chats' = chats /\ subs' = subs
        /\ send_renewal_reminders("store")
               => /\ remind'.pc = "idle"
                  /\ users' = users /\ chats' = chats /\ subs' = subs
        /\ (process_expired_subscriptions("ok") /\ sweep.result = "failed")
               => /\ sweep'.pc = "loop"
                  /\ sweep'.todo = {id \in DOMAIN subs : Due(id, clock)}
        /\ (send_renewal_reminders("ok") /\ faults > 0)
               => /\ remind'.pc = "loop"
                  /\ remind'.todo = {id \in DOMAIN subs :
                                        /\ subs[id].status = "active"
                                        /\ subs[id].end_date > clock
                                        /\ subs[id].end_date <= clock + REMINDER_DAYS_AHEAD}
      ]_vars

\* C23 witness: a run that followed a failed run has committed: a subscription
\* whose notice was sent by the failed run, and again by this one, is stored
\* as 'expired'.
SweepRecoveredAfterFailure ==
    /\ sweep.pc = "idle" /\ sweep.result = "ok" /\ faults > 0
    /\ \E id \in DOMAIN subs :
          subs[id].status = "expired" /\ notices[id].expired = 2

\* C24: no two subscription rows ever hold the same payment_id that is not
\* NULL; a row that a step adds carries a payment_id that no stored row held,
\* and a step adds at most one row and changes no payment_id (a create whose
\* reference is already stored adds nothing).
PaymentReferenceUnique ==
    /\ [](\A a \in DOMAIN subs, b \in DOMAIN subs :
            (subs[a].payment_id # NULL /\ subs[a].payment_id = subs[b].payment_id)
               => a = b)
    /\ [][ /\ Len(subs') <= Len(subs) + 1
           /\ \A id \in DOMAIN subs :
                 id \in DOMAIN subs' /\ subs'[id].payment_id = subs[id].payment_id
           /\ \A id \in DOMAIN subs' \ DOMAIN subs :
                 \A old \in DOMAIN subs : subs[old].payment_id # subs'[id].payment_id
         ]_vars

\* C24 witness: a select_chat_callback of the known user, with no store
\* failure and no other user ever seen, was answered with the database
\* error: its payment reference was the stored one.  No row was added.
CollidingCreateStoredNothing ==
    /\ reply = "db_error" /\ faults = 0
    /\ Len(users) = 1 /\ \A p \in Sessions : h[p].pc = "idle"
    /\ Len(subs) = 2
    /\ \E id \in DOMAIN subs : subs[id].payment_id # NULL

\* C25: the subscription rows are a history.  No step removes a row or
\* changes a field of a stored row other than its status; a step that adds a
\* row adds one row and leaves every stored row, whatever its status and
\* whoever its user and chat, exactly as it was; a select_chat_callback run
\* that ends with the payment instructions has added a row.
HistoryPreserved ==
    [][ /\ \A id \in DOMAIN subs :
              /\ id \in DOMAIN subs'
              /\ subs'[id] = [subs[id] EXCEPT !.status = subs'[id].status]
        /\ Len(subs') > Len(subs)
              => /\ Len(subs') = Len(subs) + 1
                 /\ \A id \in DOMAIN subs : subs'[id] = subs[id]
        /\ \A tg \in TgIds, c \in ChatArgs :
              (/\ reply' = "payment_info"
               /\ \/ select_chat_callback(tg, c) /\ h' = h
                  \/ \E p \in Sessions :
                        get_user_by_telegram_id(p) /\ h[p].op = "select_chat")
                 => Len(subs') = Len(subs) + 1
      ]_vars

\* C25 witness: the payment instructions were the last answer; the user now
\* has three rows for the same chat, the newest pending, the two older ones
\* as they were stored at the start.
ThirdRowForSamePair ==
    /\ reply = "payment_info"
    /\ Len(subs) = 3
    /\ \A id \in DOMAIN subs : subs[id].user_id = 1 /\ subs[id].chat_id = 1
    /\ subs[3].status = "pending_payment"
    /\ subs[1].end_date = 0 /\ subs[1].payment_id = 1
    /\ subs[2].end_date = 1 /\ subs[2].status = "active"

\* C26: a subscription stored as 'pending_payment' is never made 'expired' or
\* 'cancelled': no step changes its status to one of them, no run of
\* process_expired_subscriptions has it in its batch, and as long as it is not
\* confirmed it stays 'pending_payment', however far the time is past its
\* end_date.
PendingIsNeverSwept ==
    [][ \A id \in DOMAIN subs :
          subs[id].status = "pending_payment"
             => /\ id \in DOMAIN subs'
                /\ subs'[id].status \notin {"expired", "cancelled"}
                /\ id \notin sweep'.expired_subs
                /\ (~ \E tg \in TgIds : confirm_payment_callback(tg, id))
                      => subs'[id] = subs[id]
      ]_vars

\* C26 witness: a run that queried after a pending subscription's end_date
\* has committed the expiry of another subscription; the pending one is still
\* 'pending_payment'.
PendingSurvivedSweep ==
    /\ sweep.pc = "idle" /\ sweep.result = "ok"
    /\ \E p \in DOMAIN subs, e \in DOMAIN subs :
          /\ subs[p].status = "pending_payment" /\ subs[p].end_date < sweep.now
          /\ notices[p] = NoNotice
          /\ subs[e].status = "expired" /\ notices[e].expired > 0

ReferentialIntegrity ==
    \A id \in DOMAIN subs :
        subs[id].user_id \in DOMAIN users /\ subs[id].chat_id \in DOMAIN chats

\* C28 witness: a chat was removed and another created, a chat that
\* subscriptions reference was toggled and its removal was refused, and a
\* subscription to the created chat is stored.
IntegrityAfterChatChanges ==
    /\ reply = "remove_db_error" /\ faults = 0
    /\ DOMAIN chats = {1, 3}
    /\ ~chats[1].is_active
    /\ \E a \in DOMAIN subs, b \in DOMAIN subs :
          subs[a].chat_id = 1 /\ subs[b].chat_id = 3

\* C29: a run of send_renewal_reminders that queries at time now attempts a
\* reminder for exactly the subscriptions that are 'active' with
\* now < end_date <= now + REMINDER_DAYS_AHEAD: the query loads exactly those,
\* each iteration attempts one of them, once, addressed to the telegram_id of
\* its user, the loop ends when each has had its attempt, and no reminder is
\* attempted for any other subscription.
ReminderWindow ==
    [][ /\ send_renewal_reminders("ok")
              => /\ remind'.subscriptions_ending_soon =
                       {id \in DOMAIN subs :
                           /\ subs[id].status = "active"
                           /\ clock < subs[id].end_date
                           /\ subs[id].end_date <= clock + REMINDER_DAYS_AHEAD}
                 /\ remind'.sent = {}
        /\ \A s \in SubArgs, f \in {"ok", "send"} :
              send_renewal_reminder(s, f)
                 => /\ s \in remind.subscriptions_ending_soon
                    /\ \A to \in TgIds : <<s, to>> \notin remind.sent
                    /\ \E u \in DOMAIN users :
                          /\ u = subs[s].user_id
                          /\ remind'.sent = remind.sent \cup {<<s, users[u].telegram_id>>}
        /\ send_renewal_reminders_completed
              => {m[1] : m \in remind.sent} = remind.subscriptions_ending_soon
        /\ \A id \in SubArgs :
              notices'[id].reminder # notices[id].reminder
                 => /\ id \in remind.subscriptions_ending_soon
                    /\ notices'[id].reminder = notices[id].reminder + 1
      ]_vars

\* C29 witness: a run has attempted its one reminder, for the first user's
\* subscription that ends within the lead time, and none for that user's
\* active subscription that is already due nor for the second user's active
\* subscription that ends later than the lead time.
RemindedOnlyInsideWindow ==
    /\ remind.pc = "loop" /\ remind.todo = {}
    /\ remind.sent = {<<2, 1>>}
    /\ subs[1].status = "active" /\ subs[1].end_date <= clock
    /\ subs[3].status = "active" /\ subs[3].end_date > clock + REMINDER_DAYS_AHEAD
    /\ notices[1].reminder = 0 /\ notices[3].reminder = 0

\* C30: get_active_subscriptions for the external id e at time now returns
\* exactly the subscriptions of the user row whose telegram_id is e that are
\* 'active' with end_date > now: none of another user, none that is
\* 'pending_payment', 'expired' or 'cancelled', none that is due; and
\* user_my_subscriptions_callback lists subscriptions exactly when that set is
\* not empty.
ActiveForUserQuery ==
    /\ [](\A e \in TgIds :
            LET result == get_active_subscriptions(users, subs, e, clock) IN
            /\ \A id \in DOMAIN subs :
                  id \in result <=>
                     /\ \E u \in DOMAIN users :
                           users[u].telegram_id = e /\ subs[id].user_id = u
                     /\ subs[id].status = "active"
                     /\ subs[id].end_date > clock
            /\ \A id \in result :
                  /\ id \in DOMAIN subs
                  /\ users[subs[id].user_id].telegram_id = e
                  /\ subs[id].status \notin {"pending_payment", "expired", "cancelled"})
    /\ [][ \A e \in TgIds :
             (/\ user_my_subscriptions_callback(e)
              /\ faults' = faults /\ h' = h)
                => reply' = IF \E id \in DOMAIN subs :
                                  /\ users[subs[id].user_id].telegram_id = e
                                  /\ subs[id].status = "active"
                                  /\ subs[id].end_date > clock
                             THEN "listed" ELSE "no_active"
         ]_vars

\* C30 witness: the second user, who has a pending subscription only, was
\* answered that there is no active subscription, while the first user has
\* one that is active and not due and one that is active and due.
OtherUsersActiveNotListed ==
    /\ reply = "no_active"
    /\ \E u \in DOMAIN users, p \in DOMAIN subs :
          /\ users[u].telegram_id = 2
          /\ subs[p].user_id = u /\ subs[p].status = "pending_payment"
    /\ get_active_subscriptions(users, subs, 1, clock) = {2}
    /\ subs[1].status = "active" /\ subs[1].end_date <= clock

\* C31: create_chat is an upsert on the telegram chat id.  No two chat rows
\* ever hold the same telegram_chat_id.  A confirm_create_chat_callback that
\* commits, for a telegram chat id that has a row, keeps the chat row ids and
\* their telegram chat ids as they are, adds no row and leaves the
\* subscriptions untouched; for a telegram chat id with no row it adds one
\* row, with that telegram chat id, and leaves every other row as it was.
ChatUpsert ==
    /\ [](\A a \in DOMAIN chats, b \in DOMAIN chats :
            chats[a].telegram_chat_id = chats[b].telegram_chat_id => a = b)
    /\ [][ \A tgc \in TelegramChatArgs :
             confirm_create_chat_callback(tgc, "ok")
                => /\ subs' = subs
                   /\ IF \E id \in DOMAIN chats : chats[id].telegram_chat_id = tgc
                      THEN /\ DOMAIN chats' = DOMAIN chats
                           /\ \A id \in DOMAIN chats :
                                 /\ chats'[id].telegram_chat_id = chats[id].telegram_chat_id
                                 /\ chats[id].telegram_chat_id # tgc => chats'[id] = chats[id]
                      ELSE /\ Cardinality(DOMAIN chats') = Cardinality(DOMAIN chats) + 1
                           /\ \A id \in DOMAIN chats :
                                 id \in DOMAIN chats' /\ chats'[id] = chats[id]
                           /\ \A id \in DOMAIN chats' \ DOMAIN chats :
                                 chats'[id].telegram_chat_id = tgc
         ]_vars

\* C31 witness: a chat creation was the last answer, for the telegram chat id
\* of a stored chat: the sequence has given out no id since the start, both
\* chats are stored under their ids, the second one now active, and the
\* subscriptions of the first are stored.
ChatUpdatedInPlace ==
    /\ reply = "chat_created" /\ faults = 0
    /\ chats_id_seq = 2 /\ DOMAIN chats = {1, 2}
    /\ chats[2].telegram_chat_id = 200 /\ chats[2].is_active
    /\ \E id \in DOMAIN subs : subs[id].chat_id = 1

\* C32: update_subscription_status, for the id of a stored subscription and
\* any status, whatever the stored status is, sets the status and nothing
\* else: user, chat, start_date, end_date and payment_id stay as they were and
\* so does every other row; it returns the subscription.  For an id with no
\* row it returns None and changes nothing.
UpdateStatusSetsOnlyStatus ==
    [][ \A id \in SubArgs, new_status \in Statuses :
          update_subscription_status_call(id, new_status, "ok")
             => IF id \in DOMAIN subs
                THEN /\ reply' = "Subscription"
                     /\ DOMAIN subs' = DOMAIN subs
                     /\ subs'[id].status = new_status
                     /\ subs'[id].user_id = subs[id].user_id
                     /\ subs'[id].chat_id = subs[id].chat_id
                     /\ subs'[id].start_date = subs[id].start_date
                     /\ subs'[id].end_date = subs[id].end_date
                     /\ subs'[id].payment_id = subs[id].payment_id
                     /\ \A o \in DOMAIN subs \ {id} : subs'[o] = subs[o]
                ELSE reply' = "None" /\ subs' = subs
      ]_vars

\* C32 witness: a call returned the subscription; the row that was stored as
\* 'active' is now 'pending_payment', the other row, which holds a payment
\* reference, is 'cancelled'; their dates are those they were stored with.
StatusSetAgainstLifecycle ==
    /\ reply = "Subscription" /\ faults = 0
    /\ subs[2].status = "pending_payment"
    /\ subs[2].start_date = 1 - duration_days /\ subs[2].end_date = 1
    /\ subs[1].status = "cancelled" /\ subs[1].payment_id = 1
    /\ subs[1].end_date = 0

DeleteResultAsDocumented ==
    [][ \A c \in ChatRowArgs, f \in {"ok", "store"} :
          delete_chat_by_id_call(c, f)
             => reply' = IF f = "store" THEN "False" ELSE "True"
      ]_vars


\* C35: under fair scheduling of the expiry sweep and an available store,
\* every subscription that is active with end_date in the past eventually has
\* the committed status 'expired'.
ExpiryEventuallyApplied ==
    \A id \in SubArgs :
        (subs[id].status = "active" /\ subs[id].end_date < clock)
            ~> (subs[id].status = "expired")

\* C36: every subscription row is first committed with status
\* 'pending_payment', and a stored row's status becomes 'active' only in a
\* confirm_payment_callback step called by the row's own user; no other
\* handler or job sets 'active'.
ActivationOnlyByOwnerConfirm ==
    [][ /\ \A id \in DOMAIN subs' \ DOMAIN subs :
              subs'[id].status = "pending_payment"
        /\ \A id \in DOMAIN subs \cap DOMAIN subs' :
              subs[id].status # "active" /\ subs'[id].status = "active"
                  => \E tg \in TgIds : confirm_payment_callback(tg, id) /\ Owns(tg, id)
      ]_vars

\* A row made by select_chat_callback is stored as pending, and its owner's
\* confirm_payment_callback has been answered.
PendingRowAfterOwnerConfirm ==
    /\ Len(subs) = 3
    /\ subs[3].status = "pending_payment"
    /\ reply = "unexpected_error"

\* C37: select_chat_callback called with a chat id that has no row ends with
\* the not-found answer and leaves the committed store as it was: no user row
\* is created, not even for a caller seen for the first time, no subscription
\* is created, and no run stays suspended.
MissingChatPersistsNothing ==
    [][ \A tg \in TgIds, c \in ChatRowArgs :
          select_chat_callback(tg, c) /\ ~get_chat_by_id(chats, c) /\ faults' = faults
              => /\ reply' = "chat_not_found"
                 /\ users' = users
                 /\ subs' = subs
                 /\ chats' = chats
                 /\ h' = h
      ]_vars

\* The not-found answer was given while the second caller has no user row and
\* nothing beyond the initial two subscriptions is stored.
NotFoundForFirstContact ==
    /\ reply = "chat_not_found"
    /\ get_user_by_telegram_id_select(users, 2) = 0
    /\ Len(subs) = 2
    /\ \A p \in Sessions : h[p].pc = "idle"

\* C38: when two runs of process_expired_subscriptions interleave (the second
\* starts before the first commits), no subscription gets its expiry
\* notification from both runs, and once both runs have committed every
\* subscription they found due has the committed status 'expired'.
OverlappingSweepsNotifyOnce ==
    /\ \A s \in SubArgs : ~(s \in runs[1].notified /\ s \in runs[2].notified)
    /\ (\A r \in Runs : runs[r].pc = "done" /\ runs[r].result = "ok")
          => \A r \in Runs : \A s \in runs[r].expired_subs : subs[s].status = "expired"

\* C39: evaluated at the same instant, get_expired_subscriptions and
\* get_active_subscriptions never return the same subscription; every active
\* subscription is in exactly one of due (end_date <= now) and current
\* (end_date > now); every subscription that get_subscriptions_ending_soon
\* returns is current; a subscription whose end_date equals now is due, not
\* current.
TimeWindowsPartition ==
    LET due     == get_expired_subscriptions(subs, clock)
        current == UNION {get_active_subscriptions(users, subs, tg, clock) : tg \in TgIds}
        soon    == get_subscriptions_ending_soon(subs, REMINDER_DAYS_AHEAD, clock)
    IN  /\ due \cap current = {}
        /\ \A id \in DOMAIN subs :
              subs[id].status = "active"
                  => /\ (id \in due) # (id \in current)
                     /\ id \in due <=> subs[id].end_date <= clock
                     /\ id \in current <=> subs[id].end_date > clock
                     /\ subs[id].end_date = clock => id \in due /\ id \notin current
        /\ soon \subseteq current

\* A sweep has loaded, as due, an active subscription that ends at the very
\* instant of its query, while another subscription is current and ending
\* soon.
DueAtTheBoundaryLoaded ==
    /\ sweep.pc = "loop"
    /\ sweep.now = clock
    /\ \E id \in sweep.expired_subs :
          subs[id].status = "active" /\ subs[id].end_date = clock
    /\ get_subscriptions_ending_soon(subs, REMINDER_DAYS_AHEAD, clock) # {}

==========================================================================
